---- MODULE Spec2Model ----
(***************************************************************************)
(* State-machine model of the checkable tree-view bridge of                *)
(* src/src/sql/workbench/api/node/extHostModelViewTree.ts:                 *)
(*   ExtHostModelViewTreeViews  (the registry of tree views), and          *)
(*   ExtHostTreeView            (one bridge: node cache + refresh),        *)
(* and of the document-symbol aggregator of                                *)
(* src/src/vs/editor/contrib/quickOpen/quickOpen.ts (getDocumentSymbols    *)
(* and the command _executeDocumentSymbolProvider).                        *)
(* The base class vsTreeExt.ExtHostTreeView (vs/workbench/api/node/        *)
(* extHostTreeViews) is not part of the excerpt; its cache operations are  *)
(* modelled from sections 4.2 and 4.3 of the specification.                *)
(***************************************************************************)
EXTENDS Integers, Sequences, FiniteSets, TLC

(* ------------------------------ bounds -------------------------------- *)
\* tree views ever created
MaxViews == 2
\* handles one bridge's allocator hands out
MaxHandle == 4
\* getTreeItem calls of refreshes in flight at once
MaxPending == 2
\* largest component handle the extension passes to $createTreeView
MaxCompHandle == 1

(* ------------------------ values and inputs --------------------------- *)
\* undefined / null, for element-valued and string-valued slots
None == ""
\* no treeItemHandle (undefined): $getChildren and $onNodeCheckedChanged
\* treat a falsy handle as "the root"
NoHandle == 0

CompHandles == 1..MaxCompHandle
\* component ids the extension may pass; "1-a" is an id that reads like a
\* composite key
ComponentIds == {"a", "1-a"}

\* the elements of the extension's tree: g -> p -> t
Elements == {"g", "p", "t"}

\* the display fields an extension tree item carries (label, checked)
ExtItems == {[label |-> "l1", checked |-> FALSE], [label |-> "l2", checked |-> TRUE]}

\* the outcomes of one dataProvider.getTreeItem(element) call
itemOutcome(it) == [kind |-> "item", item |-> it]
noneOutcome == [kind |-> "none"]
throwOutcome == [kind |-> "throw"]
GetTreeItemOutcomes == {itemOutcome(it) : it \in ExtItems} \cup {noneOutcome, throwOutcome}

\* data providers by capability (getChildren and getTreeItem are always there)
fullProvider == [getParent |-> TRUE, onNodeCheckedChanged |-> TRUE]
minimalProvider == [getParent |-> FALSE, onNodeCheckedChanged |-> FALSE]
Providers == {fullProvider, minimalProvider}

\* the options argument of $createTreeView: undefined, without a provider,
\* or with one
NoOptions == [present |-> FALSE]
optionsOf(p) == [present |-> TRUE, hasProvider |-> TRUE, treeDataProvider |-> p]
optionsWithoutProvider == [present |-> TRUE, hasProvider |-> FALSE]

\* dataProvider.getParent(element) of the extension's tree
providerGetParent(e) ==
    CASE e = "p" -> "g"
      [] e = "t" -> "p"
      [] OTHER -> None

\* dataProvider.getChildren(element | undefined) of the extension's tree
providerGetChildren(e) ==
    CASE e = None -> <<"g">>
      [] e = "g" -> <<"p">>
      [] e = "p" -> <<"t">>
      [] OTHER -> <<>>

(* ------------------------------ errors -------------------------------- *)
NoError == [kind |-> "ok"]
\* new Error('Options with treeDataProvider is mandatory')
mandatoryOptionsError == [kind |-> "Error", message |-> "Options with treeDataProvider is mandatory"]
notRegisteredErrorNoId(treeViewId) ==
    [kind |-> "Error", message |-> "treeView.notRegistered", args |-> <<>>]
\* localize('treeView.notRegistered', 'No tree view with id \'{0}\' registered.', treeViewId)
notRegisteredError(treeViewId) ==
    [kind |-> "Error", message |-> "treeView.notRegistered", args |-> <<treeViewId>>]
\* new Error(`Required registered TreeDataProvider to implement 'getParent' ...`)
getParentRequiredError ==
    [kind |-> "Error", message |-> "Required registered TreeDataProvider to implement 'getParent' method to access 'reveal' method"]
\* calling a member the provider does not have
notAFunctionError(member) == [kind |-> "TypeError", message |-> member \o " is not a function"]
\* the base class's answer for a handle the cache does not hold
noTreeItemError(h) == [kind |-> "Error", message |-> "treeView.noTreeItem", args |-> <<h>>]

(* ------------------------------- state -------------------------------- *)
VARIABLES
    treeViews,   \* ExtHostModelViewTreeViews.treeViews: key -> view (index into views)
    views,       \* the ExtHostTreeView instances ever constructed: handle, componentId, provider
    elements,    \* per view: handle -> element (getExtensionElement)
    nodes,       \* per view: element -> TreeNode [item, parent]
    nextHandle,  \* per view: the handle allocator
    disposed,    \* per view: dispose() of the returned view has run (history)
    tasks,       \* the refreshHandles calls suspended in getTreeItem; settled is history
    sent,        \* the $refreshDataProvider calls the latest step made on the host proxy
    last,        \* what the latest handler did: arguments, error, provider calls (history)
    supports,    \* getDocumentSymbols: the provider calls of the call in progress
    entries,     \* getDocumentSymbols: the entries pushed so far (closure variable)
    reported,    \* the errors given to onUnexpectedExternalError by the latest call
    outline      \* the latest _executeDocumentSymbolProvider call and what its caller sees

treeVars == <<treeViews, views, elements, nodes, nextHandle, disposed, tasks, sent, last>>
symbolVars == <<supports, entries, reported, outline>>
vars == <<treeViews, views, elements, nodes, nextHandle, disposed, tasks, sent, last,
          supports, entries, reported, outline>>

EmptyMap == [k \in {} |-> 0]

\* Map.set
mapSet(m, k, v) == [x \in DOMAIN m \cup {k} |-> IF x = k THEN v ELSE m[x]]
\* Map.delete
mapDelete(m, k) == [x \in DOMAIN m \ {k} |-> m[x]]

\* `${handle}-${id}`
compositeKey(handle, id) == ToString(handle) \o "-" \o id

\* the ids the host may address a view by: the composite keys, the bare component
\* ids, and an id no view has
treeViewIds(compHandles, componentIds) ==
    {compositeKey(h, c) : h \in compHandles, c \in componentIds} \cup componentIds \cup {"v1"}

\* a record of what a handler did
did(op, view, arg, err, calls, logged) ==
    [op |-> op, view |-> view, arg |-> arg, err |-> err, calls |-> calls, logged |-> logged]

Init ==
    /\ treeViews = EmptyMap
    /\ views = <<>>
    /\ elements = <<>>
    /\ nodes = <<>>
    /\ nextHandle = <<>>
    /\ disposed = <<>>
    /\ tasks = <<>>
    /\ sent = <<>>
    /\ last = did("init", 0, <<>>, NoError, <<>>, <<>>)
    /\ supports = <<>>
    /\ entries = <<>>
    /\ reported = <<>>
    /\ outline = [state |-> "idle"]

(* ------------- ExtHostTreeView: the node cache (base class) ----------- *)
\* one bridge's cache as a value: both indices and the allocator
cacheOf(v) == [elements |-> elements[v], nodes |-> nodes[v], next |-> nextHandle[v]]

\* the cache of view v becomes c
setCache(v, c) ==
    /\ elements' = [elements EXCEPT ![v] = c.elements]
    /\ nodes' = [nodes EXCEPT ![v] = c.nodes]
    /\ nextHandle' = [nextHandle EXCEPT ![v] = c.next]

\* getExtensionElement(treeItemHandle): this.elements.get(handle), undefined if absent
getExtensionElement(c, h) == IF h \in DOMAIN c.elements THEN c.elements[h] ELSE None

\* the item the data provider gives for an element it is first asked about
initialExtItem == [label |-> "l1", checked |-> FALSE]

\* ExtHostTreeView.createTreeItem: the base projection, then
\* Object.assign({}, item, { checked: extensionTreeItem.checked })
createTreeItem(h, extensionTreeItem, parent) ==
    [handle |-> h, parentHandle |-> parent, label |-> extensionTreeItem.label,
     checked |-> extensionTreeItem.checked]

\* createTreeNode(element, extensionTreeItem, parent): the node of an element keeps
\* the element's handle; an element not in the cache gets the allocator's next one
createTreeNode(c, element, extensionTreeItem, parent) ==
    LET h == IF element \in DOMAIN c.nodes THEN c.nodes[element].item.handle ELSE c.next
    IN [item |-> createTreeItem(h, extensionTreeItem, parent), parent |-> parent]

\* insert(element, item, parent): allocates a new handle, stores the node,
\* updates both indices
insertNode(c, element, extensionTreeItem, parent) ==
    LET node == createTreeNode(c, element, extensionTreeItem, parent)
    IN [elements |-> mapSet(c.elements, node.item.handle, element),
        nodes |-> mapSet(c.nodes, element, node),
        next |-> c.next + 1]

\* a node is created the first time its element is fetched or revealed
materialize(c, element, parent) ==
    IF element \in DOMAIN c.nodes THEN c ELSE insertNode(c, element, initialExtItem, parent)

\* updateNodeCache(element, newNode, existing, parentNode): replaces the node of a
\* live element in place; a node that was destroyed meanwhile is not created again
updateNodeCache(c, element, newNode, existing, parentNode) ==
    IF element \in DOMAIN c.nodes
    THEN [c EXCEPT !.nodes = mapSet(c.nodes, element, newNode),
                   !.elements = mapSet(c.elements, newNode.item.handle, element)]
    ELSE c

\* the provider's children of an element, materialized in order
RECURSIVE materializeAll(_, _, _)
materializeAll(c, kids, parent) ==
    IF kids = <<>> THEN c
    ELSE materializeAll(materialize(c, Head(kids), parent), Tail(kids), parent)

\* the elements of a sequence that are not cached
uncached(c, es) == SelectSeq(es, LAMBDA e : e \notin DOMAIN c.nodes)

\* the getTreeItem calls that materialize a sequence of elements
getTreeItemCalls(es) == [i \in 1..Len(es) |-> [fn |-> "getTreeItem", arg |-> es[i]]]

\* getHandlesToRefresh(elements): the handles of the supplied elements that are in
\* the cache
getHandlesToRefresh(c, elems) == {c.nodes[e].item.handle : e \in elems \cap DOMAIN c.nodes}

\* the ancestors of an element by dataProvider.getParent, root first
RECURSIVE parentChainElements(_)
parentChainElements(e) ==
    LET parent == providerGetParent(e)
    IN IF parent = None THEN <<>> ELSE Append(parentChainElements(parent), parent)

\* the getParent calls that resolve the chain of an element
RECURSIVE getParentCalls(_)
getParentCalls(e) ==
    LET parent == providerGetParent(e)
    IN <<[fn |-> "getParent", arg |-> e]>> \o (IF parent = None THEN <<>> ELSE getParentCalls(parent))

lastOf(chain) == IF chain = <<>> THEN NoHandle ELSE chain[Len(chain)]

\* resolveTreeNode(element, parent): the element's node, created under parent if
\* the cache does not hold it
resolveTreeNode(c, element, parent) ==
    LET c2 == materialize(c, element, parent)
    IN [cache |-> c2, handle |-> c2.nodes[element].item.handle]

\* resolveUnknownParentChain(element): the nodes of the ancestors, root first, each
\* materialized under the one before it
RECURSIVE resolveUnknownParentChain(_, _)
resolveUnknownParentChain(c, element) ==
    LET parent == providerGetParent(element)
    IN IF parent = None THEN [cache |-> c, chain |-> <<>>]
       ELSE LET r == resolveUnknownParentChain(c, parent)
                n == resolveTreeNode(r.cache, parent, lastOf(r.chain))
            IN [cache |-> n.cache, chain |-> Append(r.chain, n.handle)]

(* ---------------- ExtHostModelViewTreeViews: the registry -------------- *)
\* !options || !options.treeDataProvider
optionsRejectedMissingOnly(options) == ~options.present
optionsRejected(options) == ~options.present \/ ~options.hasProvider

\* createExtHostTreeViewer: new ExtHostTreeView(handle, id, dataProvider, proxy),
\* registered under `${handle}-${id}`
createExtHostTreeViewer(handle, id, dataProvider) ==
    /\ views' = Append(views, [handle |-> handle, componentId |-> id, dataProvider |-> dataProvider])
    /\ elements' = Append(elements, EmptyMap)
    /\ nodes' = Append(nodes, EmptyMap)
    /\ nextHandle' = Append(nextHandle, 1)
    /\ disposed' = Append(disposed, FALSE)
    /\ treeViews' = mapSet(treeViews, compositeKey(handle, id), Len(views) + 1)

\* $createTreeView(handle, componentId, options)
createTreeView(maxViews, handle, componentId, options) ==
    IF optionsRejected(options)
    THEN /\ last' = did("createTreeView", 0, <<handle, componentId, options>>,
                        mandatoryOptionsError, <<>>, <<>>)
         /\ sent' = <<>>
         /\ UNCHANGED <<treeViews, views, elements, nodes, nextHandle, disposed, tasks>>
    ELSE /\ Len(views) < maxViews
         /\ createExtHostTreeViewer(handle, componentId,
                IF options.hasProvider THEN options.treeDataProvider ELSE minimalProvider)
         /\ last' = did("createTreeView", Len(views) + 1, <<handle, componentId, options>>,
                        NoError, <<>>, <<>>)
         /\ sent' = <<>>
         /\ UNCHANGED tasks

\* the key the returned view's dispose() removes: this.treeViews.delete(componentId)
disposeKey(view) == view.componentId

\* ExtHostTreeView.clearAll(): empties both indices
clearAll(c) == [c EXCEPT !.elements = EmptyMap, !.nodes = EmptyMap]

\* dispose() of the view $createTreeView returned, then treeView.dispose()
dispose(v) ==
    /\ treeViews' = mapDelete(treeViews, disposeKey(views[v]))
    /\ setCache(v, clearAll(cacheOf(v)))
    /\ disposed' = [disposed EXCEPT ![v] = TRUE]
    /\ last' = did("dispose", v, <<>>, NoError, <<>>, <<>>)
    /\ sent' = <<>>
    /\ UNCHANGED <<views, tasks>>

\* this.treeViews.get(treeViewId): the view's index, 0 for undefined
registered(treeViewId) == IF treeViewId \in DOMAIN treeViews THEN treeViews[treeViewId] ELSE 0

\* ExtHostTreeView.getChildren(parentHandle) of the base class: the provider's
\* children of the element, each materialized, as display items
treeViewGetChildren(maxHandle, v, treeViewId, treeItemHandle) ==
    LET c == cacheOf(v)
        parentElement == getExtensionElement(c, treeItemHandle)
        kids == providerGetChildren(parentElement)
        fresh == uncached(c, kids)
    IN IF treeItemHandle # NoHandle /\ parentElement = None
       THEN /\ last' = did("getChildren", v, <<treeViewId, treeItemHandle>>,
                           noTreeItemError(treeItemHandle), <<>>, <<>>)
            /\ sent' = <<>>
            /\ UNCHANGED <<treeViews, views, elements, nodes, nextHandle, disposed, tasks>>
       ELSE /\ c.next + Len(fresh) - 1 <= maxHandle
            /\ setCache(v, materializeAll(c, kids, treeItemHandle))
            /\ last' = did("getChildren", v, <<treeViewId, treeItemHandle>>, NoError,
                           <<[fn |-> "getChildren", arg |-> parentElement]>> \o getTreeItemCalls(fresh),
                           <<>>)
            /\ sent' = <<>>
            /\ UNCHANGED <<treeViews, views, disposed, tasks>>

\* $getChildren(treeViewId, treeItemHandle)
getChildren(maxHandle, treeViewId, treeItemHandle) ==
    LET treeView == registered(treeViewId)
    IN IF treeView = 0
       THEN /\ last' = did("getChildren", 0, <<treeViewId, treeItemHandle>>,
                           notRegisteredError(treeViewId), <<>>, <<>>)
            /\ sent' = <<>>
            /\ UNCHANGED <<treeViews, views, elements, nodes, nextHandle, disposed, tasks>>
       ELSE treeViewGetChildren(maxHandle, treeView, treeViewId, treeItemHandle)

\* this.componentDataProvider.onNodeCheckedChanged(parentElement, checked)
forwardedUnresolved(parentElement, parentHandle, checked) ==
    <<[fn |-> "onNodeCheckedChanged", arg |-> None, checked |-> checked]>>
forwarded(parentElement, parentHandle, checked) ==
    <<[fn |-> "onNodeCheckedChanged", arg |-> parentElement, checked |-> checked]>>

\* ExtHostTreeView.onNodeCheckedChanged(parentHandle, checked)
treeViewOnNodeCheckedChanged(v, treeViewId, parentHandle, checked) ==
    LET parentElement == IF parentHandle # NoHandle
                         THEN getExtensionElement(cacheOf(v), parentHandle) ELSE None
        logged == IF parentHandle # NoHandle /\ parentElement = None
                  THEN <<noTreeItemError(parentHandle)>> ELSE <<>>
    IN IF views[v].dataProvider.onNodeCheckedChanged
       THEN last' = did("onNodeCheckedChanged", v, <<treeViewId, parentHandle, checked>>, NoError,
                        forwarded(parentElement, parentHandle, checked), logged)
       ELSE last' = did("onNodeCheckedChanged", v, <<treeViewId, parentHandle, checked>>,
                        notAFunctionError("onNodeCheckedChanged"), <<>>, logged)

\* $onNodeCheckedChanged(treeViewId, treeItemHandle, checked)
onNodeCheckedChanged(treeViewId, treeItemHandle, checked) ==
    LET treeView == registered(treeViewId)
    IN /\ IF treeView # 0
          THEN treeViewOnNodeCheckedChanged(treeView, treeViewId, treeItemHandle, checked)
          ELSE last' = did("onNodeCheckedChanged", 0, <<treeViewId, treeItemHandle, checked>>,
                           NoError, <<>>, <<>>)
       /\ sent' = <<>>
       /\ UNCHANGED <<treeViews, views, elements, nodes, nextHandle, disposed, tasks>>

(* ------------------- ExtHostTreeView: reveal and refresh --------------- *)
\* typeof this.componentDataProvider.getParent !== 'function'
cannotRevealNever(dataProvider) == FALSE
cannotReveal(dataProvider) == ~dataProvider.getParent

\* parentChain[parentChain.length - 1]
revealParentFirst(parentChain) == IF parentChain = <<>> THEN NoHandle ELSE parentChain[1]
revealParent(parentChain) == IF parentChain = <<>> THEN NoHandle ELSE parentChain[Len(parentChain)]

\* reveal(element, options) of the view $createTreeView returned
reveal(maxHandle, v, element) ==
    LET c == cacheOf(v)
        chainElements == parentChainElements(element)
        fresh == uncached(c, Append(chainElements, element))
    IN IF cannotReveal(views[v].dataProvider)
       THEN /\ last' = did("reveal", v, <<element>>, getParentRequiredError, <<>>, <<>>)
            /\ sent' = <<>>
            /\ UNCHANGED <<treeViews, views, elements, nodes, nextHandle, disposed, tasks>>
       ELSE IF ~views[v].dataProvider.getParent
       THEN /\ last' = did("reveal", v, <<element>>, notAFunctionError("getParent"), <<>>, <<>>)
            /\ sent' = <<>>
            /\ UNCHANGED <<treeViews, views, elements, nodes, nextHandle, disposed, tasks>>
       ELSE /\ c.next + Len(fresh) - 1 <= maxHandle
            /\ LET r == resolveUnknownParentChain(c, element)
                   n == resolveTreeNode(r.cache, element, revealParent(r.chain))
               IN setCache(v, n.cache)
            /\ last' = did("reveal", v, <<element>>, NoError,
                           getParentCalls(element) \o getTreeItemCalls(fresh), <<>>)
            /\ sent' = <<>>
            /\ UNCHANGED <<treeViews, views, disposed, tasks>>

\* elements.some(element => !element)
hasRootEvery(elems) == elems # {} /\ \A element \in elems : element = None
hasRoot(elems) == \E element \in elems : element = None

\* a $refreshDataProvider(handle, componentId, itemsToRefresh?) call as the host
\* receives it, with the handles the cache held when it was made
refreshDataProviderNoItems(v, omitted, itemsToRefresh, c) ==
    [handle |-> views[v].handle, componentId |-> views[v].componentId, omitted |-> TRUE,
     itemsToRefresh |-> EmptyMap, cached |-> DOMAIN c.elements]
refreshDataProvider(v, omitted, itemsToRefresh, c) ==
    [handle |-> views[v].handle, componentId |-> views[v].componentId, omitted |-> omitted,
     itemsToRefresh |-> itemsToRefresh, cached |-> DOMAIN c.elements]

\* refreshNode(treeItemHandle) up to its suspension in getTreeItem: the element and
\* the node (existing) it read; of existing only the handle and the parent are used
refreshNodeStart(c, treeItemHandle) ==
    LET extElement == getExtensionElement(c, treeItemHandle)
        existing == c.nodes[extElement]
    IN [extElement |-> extElement,
        existing |-> [item |-> [handle |-> existing.item.handle], parent |-> existing.parent]]

\* the getTreeItem calls in flight
RECURSIVE pendingCalls(_)
pendingCalls(ts) ==
    IF ts = <<>> THEN 0 ELSE Cardinality(Head(ts).pending) + pendingCalls(Tail(ts))

\* refresh(elements): fired by the provider's onDidChangeTreeData event
refresh(maxPending, v, elems) ==
    LET c == cacheOf(v)
        handlesToRefresh == getHandlesToRefresh(c, elems)
    IN /\ ~disposed[v]
       /\ IF hasRoot(elems)
          THEN /\ setCache(v, clearAll(c))
               /\ sent' = <<refreshDataProvider(v, TRUE, EmptyMap, clearAll(c))>>
               /\ last' = did("refresh", v, <<elems>>, NoError, <<>>, <<>>)
               /\ UNCHANGED <<treeViews, views, disposed, tasks>>
          ELSE IF handlesToRefresh # {}
          THEN /\ pendingCalls(tasks) + Cardinality(handlesToRefresh) <= maxPending
               /\ tasks' = Append(tasks, [view |-> v,
                                          pending |-> handlesToRefresh,
                                          read |-> [h \in handlesToRefresh |-> refreshNodeStart(c, h)],
                                          itemsToRefresh |-> EmptyMap,
                                          settled |-> EmptyMap,
                                          failed |-> FALSE])
               /\ last' = did("refresh", v, <<elems>>, NoError,
                              [i \in 1..Cardinality(handlesToRefresh) |-> [fn |-> "getTreeItem"]], <<>>)
               /\ sent' = <<>>
               /\ UNCHANGED <<treeViews, views, elements, nodes, nextHandle, disposed>>
          ELSE /\ last' = did("refresh", v, <<elems>>, NoError, <<>>, <<>>)
               /\ sent' = <<>>
               /\ UNCHANGED <<treeViews, views, elements, nodes, nextHandle, disposed, tasks>>

\* refreshNode's continuation on a display item:
\* createTreeNode(extElement, extTreeItem, existing.parent), then updateNodeCache
refreshNodeWrongElement(c, extElement, existing, extTreeItem) ==
    LET other == getExtensionElement(c, existing.parent)
    IN createTreeNode(c, IF other = None THEN extElement ELSE other, extTreeItem, existing.parent)
refreshNodeNewNode(c, extElement, existing, extTreeItem) ==
    createTreeNode(c, extElement, extTreeItem, existing.parent)

\* Object.keys(itemsToRefresh).length ? $refreshDataProvider(...) : null
notifiesAlways(itemsToRefresh) == TRUE
notifies(itemsToRefresh) == DOMAIN itemsToRefresh # {}

\* one getTreeItem of a suspended refreshHandles settles: refreshNode's
\* continuation, the collecting then, and after the last one the join's then
refreshNodeSettled(i, treeItemHandle, outcome) ==
    LET task == tasks[i]
        v == task.view
        c == cacheOf(v)
        read == task.read[treeItemHandle]
        newNode == refreshNodeNewNode(c, read.extElement, read.existing, outcome.item)
        c2 == IF outcome.kind = "item"
              THEN updateNodeCache(c, read.extElement, newNode, read.existing, read.existing.parent)
              ELSE c
        itemsToRefresh == IF outcome.kind = "item"
                          THEN mapSet(task.itemsToRefresh, treeItemHandle, newNode.item)
                          ELSE task.itemsToRefresh
        failed == task.failed \/ outcome.kind = "throw"
        settled == mapSet(task.settled, treeItemHandle, outcome.kind)
        pending == task.pending \ {treeItemHandle}
        joined == pending = {}
    IN /\ treeItemHandle \in task.pending
       /\ setCache(v, c2)
       /\ tasks' = IF joined
                   THEN [j \in 1..(Len(tasks) - 1) |-> IF j < i THEN tasks[j] ELSE tasks[j + 1]]
                   ELSE [tasks EXCEPT ![i] = [task EXCEPT !.pending = pending,
                                                          !.itemsToRefresh = itemsToRefresh,
                                                          !.settled = settled,
                                                          !.failed = failed]]
       /\ sent' = IF joined /\ ~failed /\ notifies(itemsToRefresh)
                  THEN <<refreshDataProvider(v, FALSE, itemsToRefresh, c2)>>
                  ELSE <<>>
       /\ last' = did("refreshNode", v, <<treeItemHandle, outcome, joined, settled>>,
                      IF outcome.kind = "throw" THEN [kind |-> "ProviderFailure"] ELSE NoError,
                      <<>>, <<>>)
       /\ UNCHANGED <<treeViews, views, disposed>>

(* ------------- quickOpen.ts: the document-symbol aggregator ----------- *)
\* symbol providers registered for one model
MaxSupports == 3

\* a containerName the provider left out
Undefined == "undefined"

\* a SymbolInformation whose range starts at (line, column)
symbolInformation(name, line, column, containerName) ==
    [kind |-> "K",
     location |-> [range |-> [startLineNumber |-> line, startColumn |-> column]],
     name |-> name, containerName |-> containerName]

foo == symbolInformation("foo", 2, 1, Undefined)
bar == symbolInformation("bar", 1, 1, "C")
baz == symbolInformation("baz", 2, 1, "")

\* what provideDocumentSymbols may give: an array, something that is no array,
\* an exception, a rejected promise
arrayResult(items) == [kind |-> "array", items |-> items]
nonArrayResult == [kind |-> "nonArray"]
thrownResult == [kind |-> "throw", err |-> "thrown"]
rejectedResult == [kind |-> "reject", err |-> "rejected"]
ProvideResults ==
    {arrayResult(a) : a \in {<<>>, <<foo>>, <<baz, bar>>}}
        \cup {nonArrayResult, thrownResult, rejectedResult}

\* the resource argument of the command: no URI, a URI with a model, a URI without
Resources == {[uri |-> FALSE, model |-> FALSE], [uri |-> TRUE, model |-> TRUE],
              [uri |-> TRUE, model |-> FALSE]}

\* illegalArgument(name) of vs/base/common/errors
illegalArgument(name) == [kind |-> "Error", message |-> "Illegal argument: " \o name]

\* Range.compareRangesUsingStarts: by start line, then by start column
compareRangesUsingStarts(a, b) ==
    IF a.startLineNumber # b.startLineNumber
    THEN a.startLineNumber - b.startLineNumber
    ELSE a.startColumn - b.startColumn

compareEntriesUsingStart(a, b) ==
    compareRangesUsingStarts(a.location.range, b.location.range)

\* entry.containerName || overrideContainerLabel
containerNameOr(containerName, overrideContainerLabel) ==
    IF containerName \in {Undefined, ""} THEN overrideContainerLabel ELSE containerName

flatten(bucket, es, overrideContainerLabel) ==
    bucket \o [i \in 1..Len(es) |->
                 [kind |-> es[i].kind,
                  location |-> es[i].location,
                  name |-> es[i].name,
                  containerName |-> containerNameOr(es[i].containerName, overrideContainerLabel)]]

\* s without its i-th member
removeAt(s, i) == [j \in 1..(Len(s) - 1) |-> IF j < i THEN s[j] ELSE s[j + 1]]

\* flatEntries.sort(compareEntriesUsingStart): every arrangement of s a sort by
\* this comparison may leave (members that compare equal in any order)
RECURSIVE sort(_)
sort(s) ==
    IF s = <<>> THEN {<<>>}
    ELSE UNION {{<<s[i]>> \o r : r \in sort(removeAt(s, i))} :
                 i \in {j \in 1..Len(s) :
                          \A k \in 1..Len(s) : compareEntriesUsingStart(s[j], s[k]) <= 0}}

\* a provider call that has not settled, and one that has
pendingSupport == [state |-> "pending"]
settledSupport(result) == [state |-> "settled", result |-> result]

\* TPromise.join(promises) has every promise settled (mutant: some promise)
joinAny(ss) == \E i \in 1..Len(ss) : ss[i].state = "settled"
join(ss) == \A i \in 1..Len(ss) : ss[i].state = "settled"

\* if (Array.isArray(result)) entries.push(...result)   (mutant: entries = result)
pushResultReplacing(es, result) == IF result.kind = "array" THEN result.items ELSE es
pushResult(es, result) == IF result.kind = "array" THEN es \o result.items ELSE es

\* err => onUnexpectedExternalError(err)
reportResult(rs, result) ==
    IF result.kind \in {"throw", "reject"} THEN Append(rs, result.err) ELSE rs

\* the outlines the continuation of the join may resolve the call with
resolvedOutlines(call, es) ==
    {[state |-> "resolved", resource |-> call.resource, registered |-> call.registered,
      entries |-> flatEntries] : flatEntries \in sort(flatten(<<>>, es, ""))}

\* getDocumentSymbols(model) with n providers registered for the model
getDocumentSymbols(resource, n) ==
    LET call == [state |-> "pending", resource |-> resource, registered |-> n]
    IN /\ supports' = [i \in 1..n |-> pendingSupport]
       /\ entries' = <<>>
       /\ IF join(supports')
          THEN outline' \in resolvedOutlines(call, entries')
          ELSE outline' = call

\* resource instanceof URI
isURI(resource) == resource.uri

\* accessor.get(IModelService).getModel(resource) gives a model (mutant: always)
getModelAlways(resource) == TRUE
getModel(resource) == resource.model

\* the command _executeDocumentSymbolProvider, called when no call is in progress
executeDocumentSymbolProvider(resource, n) ==
    /\ outline.state # "pending"
    /\ reported' = <<>>
    /\ IF ~isURI(resource) \/ ~getModel(resource)
       THEN /\ outline' = [state |-> "failed", resource |-> resource, registered |-> n,
                           err |-> illegalArgument("resource")]
            /\ supports' = <<>>
            /\ entries' = <<>>
       ELSE getDocumentSymbols(resource, n)
    /\ UNCHANGED treeVars

\* provideDocumentSymbols of provider i settles; the last one to settle resolves
\* the join
provideDocumentSymbolsSettled(i, result) ==
    /\ outline.state = "pending"
    /\ i \in 1..Len(supports)
    /\ supports[i].state = "pending"
    /\ supports' = [supports EXCEPT ![i] = settledSupport(result)]
    /\ entries' = pushResult(entries, result)
    /\ reported' = reportResult(reported, result)
    /\ IF join(supports')
       THEN outline' \in resolvedOutlines(outline, entries')
       ELSE UNCHANGED outline
    /\ UNCHANGED treeVars

(* --------------------------- specifications --------------------------- *)
\* L bounds a run: views created, handles per bridge, getTreeItem calls in flight,
\* the component handles, ids, providers and elements the extension passes, and
\* the view ids the host addresses

\* the extension creates a view, the host fetches children, the extension reveals
\* and refreshes, and the provider's getTreeItem calls settle
BridgeSteps(L) ==
    \/ \E h \in L.compHandles, c \in L.componentIds,
          o \in {NoOptions, optionsWithoutProvider} \cup {optionsOf(p) : p \in L.providers} :
          createTreeView(L.views, h, c, o) /\ UNCHANGED symbolVars
    \/ \E id \in L.ids, h \in 0..L.handles :
          getChildren(L.handles, id, h) /\ UNCHANGED symbolVars
    \/ \E v \in 1..Len(views), e \in L.elements :
          reveal(L.handles, v, e) /\ UNCHANGED symbolVars
    \/ \E v \in 1..Len(views), elems \in SUBSET (L.elements \cup {None}) :
          refresh(L.pending, v, elems) /\ UNCHANGED symbolVars
    \/ \E i \in 1..Len(tasks), h \in 1..L.handles, o \in GetTreeItemOutcomes :
          refreshNodeSettled(i, h, o) /\ UNCHANGED symbolVars

\* the extension disposes a view, the host reports a checked node
RegistrySteps(L) ==
    \/ \E v \in 1..Len(views) : dispose(v) /\ UNCHANGED symbolVars
    \/ \E id \in L.ids, h \in 0..L.handles, checked \in BOOLEAN :
          onNodeCheckedChanged(id, h, checked) /\ UNCHANGED symbolVars

\* handles per bridge and getTreeItem calls in flight where several views are followed
ShallowHandles == 1
ShallowPending == 1

\* the registry with several tree views, each with a small cache
Shallow == [views |-> MaxViews, handles |-> ShallowHandles, pending |-> ShallowPending,
            compHandles |-> CompHandles, componentIds |-> ComponentIds,
            providers |-> Providers, elements |-> {"g", "p"},
            ids |-> treeViewIds(CompHandles, ComponentIds)]
Next == BridgeSteps(Shallow) \/ RegistrySteps(Shallow)
Spec == Init /\ [][Next]_vars

\* one tree view with its whole cache and overlapping refreshes
Deep == [views |-> 1, handles |-> MaxHandle, pending |-> MaxPending,
         compHandles |-> {1}, componentIds |-> {"a"},
         providers |-> {fullProvider}, elements |-> Elements,
         ids |-> {compositeKey(1, "a"), "v1"}]
NextTree == BridgeSteps(Deep)
SpecTree == Init /\ [][NextTree]_vars

\* the command and its provider calls
NextSymbols ==
    \/ \E r \in Resources, n \in 0..MaxSupports : executeDocumentSymbolProvider(r, n)
    \/ \E i \in 1..MaxSupports, result \in ProvideResults : provideDocumentSymbolsSettled(i, result)
SpecSymbols == Init /\ [][NextSymbols]_vars

(* ------------------------------- claims ------------------------------- *)
\* the cache and the registry, and the refreshes in flight
registryAndCaches == <<treeViews, views, elements, nodes, nextHandle, disposed, tasks>>

\* the composite key a view was registered under
keyOf(v) == compositeKey(views[v].handle, views[v].componentId)

\* C1: $getChildren for a treeViewId no view is registered under fails with the
\* not-registered error whose arguments hold that treeViewId, invokes no data
\* provider and leaves the registry and every cache as they were.
C1_GetChildrenNotRegistered ==
    [][(last'.op = "getChildren" /\ last'.arg[1] \notin DOMAIN treeViews) =>
          /\ last'.err.kind = "Error"
          /\ last'.err.message = "treeView.notRegistered"
          /\ \E i \in DOMAIN last'.err.args : last'.err.args[i] = last'.arg[1]
          /\ last'.calls = <<>>
          /\ UNCHANGED registryAndCaches]_vars

\* C1 witness: with a view registered and its cache filled, the host asks for the
\* children of view "v1", which nobody registered.
C1_Witness ==
    /\ last.op = "getChildren"
    /\ last.arg[1] = "v1"
    /\ "v1" \notin DOMAIN treeViews
    /\ \E v \in 1..Len(views) : DOMAIN nodes[v] # {}

\* C2: once dispose() of the returned view has run, a host-initiated $getChildren
\* or $onNodeCheckedChanged that reaches this view invokes no data provider.
C2_DisposedIsTerminal ==
    (/\ last.op \in {"getChildren", "onNodeCheckedChanged"}
     /\ last.view # 0
     /\ disposed[last.view]) => last.calls = <<>>

\* C3: a host call addressed with the composite key of a view that was created,
\* not disposed, and not replaced by a later view of the same key, is delegated
\* to that view.
C3_RegisteredUntilDisposed ==
    \A v \in 1..Len(views) :
        (/\ last.op \in {"getChildren", "onNodeCheckedChanged"}
         /\ last.arg[1] = keyOf(v)
         /\ ~disposed[v]
         /\ \A w \in (v + 1)..Len(views) : keyOf(w) # keyOf(v)) => last.view = v

\* C4: $createTreeView with no options, or with options that carry no
\* treeDataProvider, fails with the mandatory-options error and constructs and
\* registers nothing.
C4_CreateRejectsMissingProvider ==
    [][(/\ last'.op = "createTreeView"
        /\ (~last'.arg[3].present \/ ~last'.arg[3].hasProvider)) =>
          /\ last'.err.kind = "Error"
          /\ last'.err.message = "Options with treeDataProvider is mandatory"
          /\ UNCHANGED registryAndCaches]_vars

\* C4 witness: with a view already registered, $createTreeView is called with
\* options that hold no treeDataProvider.
C4_Witness ==
    /\ last.op = "createTreeView"
    /\ last.arg[3] = optionsWithoutProvider
    /\ last.err # NoError
    /\ DOMAIN treeViews # {}

\* C5: a refresh whose elements hold the root sentinel clears the whole cache,
\* makes exactly one $refreshDataProvider(handle, componentId) call with the items
\* omitted, made when the cache is already empty, and starts no per-element batch.
C5_RootRefreshClearsAndRedraws ==
    [][(last'.op = "refresh" /\ None \in last'.arg[1]) =>
          /\ elements'[last'.view] = EmptyMap
          /\ nodes'[last'.view] = EmptyMap
          /\ Len(sent') = 1
          /\ sent'[1].omitted
          /\ sent'[1].itemsToRefresh = EmptyMap
          /\ sent'[1].handle = views[last'.view].handle
          /\ sent'[1].componentId = views[last'.view].componentId
          /\ sent'[1].cached = {}
          /\ tasks' = tasks]_vars

\* C5 witness: a refresh of the root sentinel together with other elements, on a
\* view whose cache had been filled.
C5_Witness ==
    /\ last.op = "refresh"
    /\ last.arg[1] = {None, "g", "p"}
    /\ nextHandle[last.view] > 2
    /\ elements[last.view] = EmptyMap
    /\ Len(sent) = 1

\* C6: a refresh without the root sentinel none of whose elements has a handle in
\* the cache starts no batch and notifies nobody; a batch all of whose refetches
\* gave no display item ends without a $refreshDataProvider call.
C6_NothingResolvedNothingSent ==
    [][/\ (/\ last'.op = "refresh"
           /\ None \notin last'.arg[1]
           /\ last'.arg[1] \cap DOMAIN nodes[last'.view] = {}) =>
              (sent' = <<>> /\ tasks' = tasks)
       /\ (/\ last'.op = "refreshNode"
           /\ \A h \in DOMAIN last'.arg[4] : last'.arg[4][h] # "item") =>
              sent' = <<>>]_vars

\* C6 witness: a batch of two handles has ended with both refetches giving nothing.
C6_Witness ==
    /\ last.op = "refreshNode"
    /\ last.arg[3]
    /\ Cardinality(DOMAIN last.arg[4]) = 2
    /\ \A h \in DOMAIN last.arg[4] : last.arg[4][h] = "none"
    /\ sent = <<>>

\* C7: in every state, every handle of the cache maps to one element whose node
\* carries that handle, and every element of the cache has a node whose handle
\* maps back to it.
C7_CacheBijection ==
    \A v \in 1..Len(views) :
        /\ \A h \in DOMAIN elements[v] :
              /\ elements[v][h] \in DOMAIN nodes[v]
              /\ nodes[v][elements[v][h]].item.handle = h
        /\ \A e \in DOMAIN nodes[v] :
              /\ nodes[v][e].item.handle \in DOMAIN elements[v]
              /\ elements[v][nodes[v][e].item.handle] = e

\* C7 witness: after a root refresh emptied the cache and fetches filled it again,
\* a per-element refresh has replaced the item of a node with a parent.
C7_Witness ==
    /\ last.op = "refreshNode"
    /\ last.arg[2].kind = "item"
    /\ Cardinality(DOMAIN nodes[last.view]) >= 2
    /\ 1 \notin DOMAIN elements[last.view]
    /\ last.arg[1] \in DOMAIN elements[last.view]
    /\ nodes[last.view][elements[last.view][last.arg[1]]].parent # NoHandle
    /\ nodes[last.view][elements[last.view][last.arg[1]]].item.label = "l2"

\* C8: reveal on a view whose provider has no getParent fails with the
\* getParent-required error, calls no provider member and leaves the cache as it was.
C8_RevealNeedsGetParent ==
    [][(last'.op = "reveal" /\ ~views[last'.view].dataProvider.getParent) =>
          /\ last'.err.kind = "Error"
          /\ last'.err.message = "Required registered TreeDataProvider to implement 'getParent' method to access 'reveal' method"
          /\ last'.calls = <<>>
          /\ UNCHANGED <<elements, nodes, nextHandle>>]_vars

\* C8 witness: reveal on a view whose provider has no getParent and whose cache
\* holds a node.
C8_Witness ==
    /\ last.op = "reveal"
    /\ ~views[last.view].dataProvider.getParent
    /\ last.err # NoError
    /\ DOMAIN nodes[last.view] # {}

\* an element three levels deep, by the provider's getParent
threeDeep(e) ==
    /\ providerGetParent(e) # None
    /\ providerGetParent(providerGetParent(e)) # None
    /\ providerGetParent(providerGetParent(providerGetParent(e))) = None

\* C9: reveal of an element three levels deep, from a cache that holds neither it
\* nor its parent nor its grandparent, adds exactly these three nodes: the
\* grandparent without parent, the parent under the grandparent's node, the target
\* under the parent's node, each parent allocated before its child.
C9_RevealThreeLevels ==
    [][(/\ last'.op = "reveal"
        /\ last'.err = NoError
        /\ threeDeep(last'.arg[1])
        /\ {last'.arg[1], providerGetParent(last'.arg[1]),
            providerGetParent(providerGetParent(last'.arg[1]))}
              \cap DOMAIN nodes[last'.view] = {}) =>
          LET v == last'.view
              t == last'.arg[1]
              p == providerGetParent(t)
              g == providerGetParent(p)
              n == nodes'[v]
          IN /\ DOMAIN n = DOMAIN nodes[v] \cup {g, p, t}
             /\ Cardinality(DOMAIN elements'[v]) = Cardinality(DOMAIN elements[v]) + 3
             /\ n[g].parent = NoHandle
             /\ n[p].parent = n[g].item.handle
             /\ n[t].parent = n[p].item.handle
             /\ n[p].item.parentHandle = n[g].item.handle
             /\ n[t].item.parentHandle = n[p].item.handle
             /\ n[g].item.handle < n[p].item.handle
             /\ n[p].item.handle < n[t].item.handle
             /\ \A e \in {g, p, t} : elements'[v][n[e].item.handle] = e]_vars

\* C9 witness: reveal of "t" has asked getParent three times and materialized
\* three elements.
C9_Witness ==
    /\ last.op = "reveal"
    /\ last.arg = <<"t">>
    /\ last.err = NoError
    /\ Len(last.calls) = 6
    /\ Cardinality(DOMAIN nodes[last.view]) = 3

\* C10: $onNodeCheckedChanged for an unregistered view does nothing; for a
\* registered view whose provider implements onNodeCheckedChanged it calls the
\* provider once with the element of the handle (none when the cache has no such
\* handle, which is logged) and the checked flag, and does not fail.
C10_CheckedChangeForwarded ==
    [][last'.op = "onNodeCheckedChanged" =>
          LET id == last'.arg[1]
              h == last'.arg[2]
              v == IF id \in DOMAIN treeViews THEN treeViews[id] ELSE 0
          IN /\ v = 0 =>
                  /\ last'.calls = <<>>
                  /\ last'.err = NoError
                  /\ last'.logged = <<>>
                  /\ UNCHANGED registryAndCaches
             /\ (v # 0 /\ views[v].dataProvider.onNodeCheckedChanged) =>
                  /\ last'.err = NoError
                  /\ Len(last'.calls) = 1
                  /\ last'.calls[1].fn = "onNodeCheckedChanged"
                  /\ last'.calls[1].arg = (IF h \in DOMAIN elements[v] THEN elements[v][h] ELSE None)
                  /\ last'.calls[1].checked = last'.arg[3]
                  /\ (h # NoHandle /\ h \notin DOMAIN elements[v]) => last'.logged # <<>>]_vars

\* C10 witness: a checked change for a handle that was handed out and that the
\* cache of the registered view no longer holds is logged and forwarded with no
\* element.
C10_Witness ==
    /\ last.op = "onNodeCheckedChanged"
    /\ last.view # 0
    /\ last.logged # <<>>
    /\ Len(last.calls) = 1
    /\ last.calls[1].arg = None
    /\ nextHandle[last.view] > last.arg[2]

\* the items of the providers that settled with an array, in registry order
RECURSIVE arraysOf(_)
arraysOf(ss) ==
    IF ss = <<>> THEN <<>>
    ELSE (IF ss[1].state = "settled" /\ ss[1].result.kind = "array"
          THEN ss[1].result.items ELSE <<>>) \o arraysOf(Tail(ss))

\* how often x is a member of s
occurrences(s, x) == Cardinality({i \in 1..Len(s) : s[i] = x})

\* a and b hold the same members, each as often
sameMembers(a, b) ==
    /\ Len(a) = Len(b)
    /\ \A i \in 1..Len(a) : occurrences(a, a[i]) = occurrences(b, a[i])

\* the providers that threw or rejected
failedSupports(ss) ==
    {i \in 1..Len(ss) : ss[i].state = "settled" /\ ss[i].result.kind \in {"throw", "reject"}}

\* C11: whichever providers throw, reject or give no array, and in whatever order
\* the calls settle, a call with a resolvable resource never fails and resolves
\* with exactly the flattened entries of the providers that gave an array, each as
\* often as provided, ordered by range start; every thrown or rejected error is
\* reported to the unexpected-error sink once (a result that is no array carries
\* no error and reports none).
C11_FailuresIsolated ==
    /\ (outline.state = "failed") => (~outline.resource.uri \/ ~outline.resource.model)
    /\ (outline.state = "resolved") =>
          /\ \A i \in 1..Len(supports) : supports[i].state = "settled"
          /\ sameMembers(outline.entries, flatten(<<>>, arraysOf(supports), ""))
          /\ \A i, j \in 1..Len(outline.entries) :
                i < j => compareEntriesUsingStart(outline.entries[i], outline.entries[j]) <= 0
          /\ Len(reported) = Cardinality(failedSupports(supports))
          /\ \A i \in failedSupports(supports) :
                occurrences(reported, supports[i].result.err)
                    = Cardinality({j \in failedSupports(supports) :
                                      supports[j].result.err = supports[i].result.err})

\* C11 witness: of three providers the second rejected and the third, which gave
\* two entries, settled before the first, which gave one; the call resolved with
\* the three entries.
C11_Witness ==
    /\ outline.state = "resolved"
    /\ Len(supports) = 3
    /\ supports[1].result = arrayResult(<<foo>>)
    /\ supports[2].result = rejectedResult
    /\ supports[3].result = arrayResult(<<baz, bar>>)
    /\ entries = <<baz, bar, foo>>
    /\ Len(outline.entries) = 3
    /\ reported = <<"rejected">>

\* C12: while a provider call of the call in progress has not settled the caller
\* has no outline and no entries; an outline is there only when every provider
\* call has settled, and is then merged and sorted.
C12_NoPartialResult ==
    /\ (outline.state = "pending") => ("entries" \notin DOMAIN outline)
    /\ (\E i \in 1..Len(supports) : supports[i].state = "pending") =>
          outline.state = "pending"
    /\ (outline.state = "resolved") =>
          /\ Len(outline.entries) = Len(arraysOf(supports))
          /\ \A i, j \in 1..Len(outline.entries) :
                i < j => compareEntriesUsingStart(outline.entries[i], outline.entries[j]) <= 0

\* C12 witness: two of three providers have settled with entries, the third is
\* pending, and the caller has nothing yet.
C12_Witness ==
    /\ outline.state = "pending"
    /\ Len(supports) = 3
    /\ supports[2].state = "pending"
    /\ Len(entries) = 3

\* C13: the command called with a resource that is no URI, or for which no model
\* is found, fails with illegalArgument('resource') and calls no provider;
\* otherwise it does not fail and calls getDocumentSymbols, which calls every
\* provider registered for the model, and its outcome is that of getDocumentSymbols.
C13_CommandChecksResource ==
    [][(outline.state # "pending" /\ outline' # outline) =>
          IF ~outline'.resource.uri \/ ~outline'.resource.model
          THEN /\ outline'.state = "failed"
               /\ outline'.err = illegalArgument("resource")
               /\ supports' = <<>>
               /\ reported' = <<>>
          ELSE /\ Len(supports') = outline'.registered
               /\ \A i \in 1..Len(supports') : supports'[i].state = "pending"
               /\ outline'.state = (IF outline'.registered = 0 THEN "resolved" ELSE "pending")]_vars

\* C13 witness: the command was called with a URI no model is found for, while
\* two providers are registered, and no provider was called.
C13_Witness ==
    /\ outline.state = "failed"
    /\ outline.resource.uri
    /\ ~outline.resource.model
    /\ outline.registered = 2
    /\ supports = <<>>

\* C14: across every step, a node that stays in the cache keeps its handle and its
\* parent; a refresh replaces only the display item.
C14_RefreshInPlace ==
    [][\A v \in 1..Len(views) : \A e \in DOMAIN nodes[v] \cap DOMAIN nodes'[v] :
          /\ nodes'[v][e].item.handle = nodes[v][e].item.handle
          /\ nodes'[v][e].parent = nodes[v][e].parent
          /\ nodes'[v][e].item.parentHandle = nodes[v][e].item.parentHandle]_vars

\* the handles a refresh of elems on view v resolves
resolvedHandles(v, elems) == {nodes[v][e].item.handle : e \in elems \cap DOMAIN nodes[v]}

\* C15: a refresh without the root sentinel refetches the item of each supplied
\* element that has a handle and sends nothing itself; the one $refreshDataProvider
\* call of its batch is made only by the step that settles the last refetch, and
\* its items map has exactly the handles whose refetch gave an item, each with the
\* refetched label and checked state.
C15_BatchAfterAllSettled ==
    [][/\ (last'.op = "refresh" /\ None \notin last'.arg[1]) =>
             /\ sent' = <<>>
             /\ Len(last'.calls) = Cardinality(resolvedHandles(last'.view, last'.arg[1]))
             /\ tasks' # tasks =>
                   /\ tasks'[Len(tasks')].pending = resolvedHandles(last'.view, last'.arg[1])
                   /\ tasks'[Len(tasks')].itemsToRefresh = EmptyMap
       /\ (last'.op = "refreshNode") =>
             \E i \in 1..Len(tasks) :
                LET task == tasks[i]
                    h == last'.arg[1]
                    outcome == last'.arg[2]
                    settled == last'.arg[4]
                    got == {k \in DOMAIN settled : settled[k] = "item"}
                IN /\ task.view = last'.view
                   /\ h \in task.pending
                   /\ DOMAIN settled = DOMAIN task.settled \cup {h}
                   /\ \A k \in DOMAIN task.settled : settled[k] = task.settled[k]
                   /\ Len(sent') <= 1
                   /\ (task.pending # {h}) => sent' = <<>>
                   /\ (sent' # <<>>) =>
                         /\ ~sent'[1].omitted
                         /\ sent'[1].handle = views[task.view].handle
                         /\ sent'[1].componentId = views[task.view].componentId
                         /\ DOMAIN settled = DOMAIN task.read
                         /\ DOMAIN sent'[1].itemsToRefresh = got
                         /\ \A k \in DOMAIN task.itemsToRefresh :
                               sent'[1].itemsToRefresh[k] = task.itemsToRefresh[k]
                         /\ (outcome.kind = "item") =>
                               /\ sent'[1].itemsToRefresh[h].label = outcome.item.label
                               /\ sent'[1].itemsToRefresh[h].checked = outcome.item.checked
                   /\ (task.pending # {h} /\ outcome.kind = "item") =>
                         \E j \in 1..Len(tasks') :
                            /\ h \in DOMAIN tasks'[j].itemsToRefresh
                            /\ tasks'[j].itemsToRefresh[h].label = outcome.item.label
                            /\ tasks'[j].itemsToRefresh[h].checked = outcome.item.checked]_vars

\* C15 witness: a batch of two handles ended; one refetch gave nothing, the other
\* an item, and the host got the one item.
C15_Witness ==
    /\ last.op = "refreshNode"
    /\ last.arg[3]
    /\ Cardinality(DOMAIN last.arg[4]) = 2
    /\ \E h \in DOMAIN last.arg[4] : last.arg[4][h] = "none"
    /\ Len(sent) = 1
    /\ Cardinality(DOMAIN sent[1].itemsToRefresh) = 1

\* C16: a refresh that arrives while an earlier refresh of the same handle waits
\* for its refetch is coalesced into the earlier one's batch: when the host is
\* sent an item batch, no other refresh of one of its handles is still in flight.
C16_RefreshesCoalesced ==
    [][(last'.op = "refreshNode" /\ sent' # <<>>) =>
          \A j \in 1..Len(tasks') :
             tasks'[j].view = last'.view =>
                DOMAIN tasks'[j].read \cap DOMAIN last'.arg[4] = {}]_vars

\* C17: when the last refetch of a batch settles, the handles whose refetch gave
\* an item are notified to the host, whatever became of the other refetches.
C17_FailureDegradesToNoOp ==
    [][(/\ last'.op = "refreshNode"
        /\ last'.arg[3]
        /\ \E h \in DOMAIN last'.arg[4] : last'.arg[4][h] = "item") =>
          /\ Len(sent') = 1
          /\ DOMAIN sent'[1].itemsToRefresh
                = {h \in DOMAIN last'.arg[4] : last'.arg[4][h] = "item"}]_vars

\* C18: a refresh that resumes after a root refresh cleared the cache adds no node
\* to the cache and sends no item batch with a handle the cache does not hold.
C18_RootRefreshWins ==
    [][(last'.op = "refreshNode") =>
          /\ DOMAIN nodes'[last'.view] \subseteq DOMAIN nodes[last'.view]
          /\ \A i \in 1..Len(sent') :
                DOMAIN sent'[i].itemsToRefresh \subseteq DOMAIN elements'[last'.view]]_vars

\* the keys view w is registered under
keysOf(reg, w) == {k \in DOMAIN reg : reg[k] = w}

\* C19: getChildren, reveal, refresh, a settling refetch, onNodeCheckedChanged and
\* dispose on one view leave the cache and the registration of every other view
\* as they were, and what they send the host carries the view's own handle and
\* componentId.
C19_CacheExclusive ==
    [][(/\ last'.op \in {"getChildren", "reveal", "refresh", "refreshNode",
                          "onNodeCheckedChanged", "dispose"}
        /\ last'.view # 0) =>
          /\ \A w \in (1..Len(views)) \ {last'.view} :
                /\ elements'[w] = elements[w]
                /\ nodes'[w] = nodes[w]
                /\ nextHandle'[w] = nextHandle[w]
                /\ keysOf(treeViews', w) = keysOf(treeViews, w)
          /\ \A i \in 1..Len(sent') :
                /\ sent'[i].handle = views[last'.view].handle
                /\ sent'[i].componentId = views[last'.view].componentId]_vars

\* C20: $onNodeCheckedChanged on a registered view whose provider has no
\* onNodeCheckedChanged raises no error.
C20_CheckedChangeOptional ==
    (/\ last.op = "onNodeCheckedChanged"
     /\ last.view # 0
     /\ ~views[last.view].dataProvider.onNodeCheckedChanged) => last.err = NoError
====
